---- MODULE Spec2Model ----
(***************************************************************************)
(* Structure analysis (title / heading detection) and persona ranking of   *)
(* the three Streamlit applications main.py, main2.py and main3.py.        *)
(*                                                                         *)
(* Texts are sequences of one-character strings, so that the regular       *)
(* expressions, str.split, str.lower and slicing of the source are         *)
(* computed character by character.  Font sizes are integers counted in    *)
(* units of 1/Pt point; comparisons with the average size are done in      *)
(* exact rational arithmetic by cross-multiplication.                      *)
(***************************************************************************)
EXTENDS Integers, Sequences, FiniteSets, TLC

(***************************************************************************)
(* Characters and character classes of Python's re module (ASCII part).    *)
(***************************************************************************)
UpperSeq ==
    <<"A", "B", "C", "D", "E", "F", "G", "H", "I", "J", "K", "L", "M",
      "N", "O", "P", "Q", "R", "S", "T", "U", "V", "W", "X", "Y", "Z">>

LowerSeq ==
    <<"a", "b", "c", "d", "e", "f", "g", "h", "i", "j", "k", "l", "m",
      "n", "o", "p", "q", "r", "s", "t", "u", "v", "w", "x", "y", "z">>

Upper ==
    {UpperSeq[i] : i \in 1..Len(UpperSeq)}

Lower ==
    {LowerSeq[i] : i \in 1..Len(LowerSeq)}

Digit ==
    {"0", "1", "2", "3", "4", "5", "6", "7", "8", "9"}

\* \w
WordCh ==
    Upper \cup Lower \cup Digit \cup {"_"}

\* \s
SpaceCh ==
    {" ", "\t"}

Punct ==
    {".", ":", "@", "&", "-", ",", "/"}

Chr ==
    WordCh \cup SpaceCh \cup Punct

\* [^\w\s]
NotWordNotSpace ==
    Chr \ (WordCh \cup SpaceCh)

(***************************************************************************)
(* str methods.                                                            *)
(***************************************************************************)
LowerCh(c) ==
    IF c \in Upper
    THEN LowerSeq[CHOOSE i \in 1..Len(UpperSeq) : UpperSeq[i] = c]
    ELSE c

\* str.lower()
StrLower(s) ==
    [i \in 1..Len(s) |-> LowerCh(s[i])]

\* s[:n]
Take(s, n) ==
    IF Len(s) <= n THEN s ELSE SubSeq(s, 1, n)

\* str.startswith(p)
StartsWith(s, p) ==
    /\ Len(p) <= Len(s)
    /\ \A i \in 1..Len(p) : s[i] = p[i]

\* str.endswith(p)
EndsWith(s, p) ==
    /\ Len(p) <= Len(s)
    /\ \A i \in 1..Len(p) : s[Len(s) - Len(p) + i] = p[i]

\* p in s
Contains(s, p) ==
    \E k \in 0..(Len(s) - Len(p)) : \A i \in 1..Len(p) : s[k + i] = p[i]

\* str.strip()
Strip(s) ==
    LET ns == {i \in 1..Len(s) : s[i] \notin SpaceCh}
    IN  IF ns = {} THEN <<>>
        ELSE SubSeq(s, CHOOSE i \in ns : \A j \in ns : i <= j,
                       CHOOSE i \in ns : \A j \in ns : j <= i)

\* 1, 2, .., Len(s)
Indices(s) ==
    [i \in 1..Len(s) |-> i]

\* str.split(): the maximal runs of non-whitespace characters of s, in order
Split(s) ==
    LET starts == SelectSeq(Indices(s), LAMBDA i :
                      s[i] \notin SpaceCh /\ (i = 1 \/ s[i - 1] \in SpaceCh))
        ends == SelectSeq(Indices(s), LAMBDA i :
                      s[i] \notin SpaceCh /\ (i = Len(s) \/ s[i + 1] \in SpaceCh))
    IN  [n \in 1..Len(starts) |-> SubSeq(s, starts[n], ends[n])]

\* set(s.split())
TokenSet(s) ==
    LET t == Split(s) IN {t[i] : i \in 1..Len(t)}

RECURSIVE JoinSp(_)
\* " ".join(words)
JoinSp(words) ==
    IF Len(words) = 0 THEN <<>>
    ELSE IF Len(words) = 1 THEN words[1]
    ELSE words[1] \o <<" ">> \o JoinSp(Tail(words))

\* re.sub(r'\s+', ' ', s): every maximal whitespace run becomes one blank
Collapse(s) ==
    LET kept == SelectSeq(Indices(s), LAMBDA i :
                    s[i] \notin SpaceCh \/ i = 1 \/ s[i - 1] \notin SpaceCh)
    IN  [n \in 1..Len(kept) |-> IF s[kept[n]] \in SpaceCh THEN " " ELSE s[kept[n]]]

\* re.sub(r'\s+', ' ', text.strip())
clean_text(text_string) ==
    Collapse(Strip(text_string))

(***************************************************************************)
(* Regular expressions: a pattern is a sequence of items; re.match(p, s)   *)
(* succeeds iff the items can consume a prefix of s.  Matching is by sets  *)
(* of reachable positions (number of characters consumed), which accepts   *)
(* exactly what the backtracking matcher accepts.                          *)
(***************************************************************************)
\* one character of class S
One(S) == [k |-> "cls", set |-> S, q |-> "one"]

\* S?
Opt(S) == [k |-> "cls", set |-> S, q |-> "opt"]

\* S+
Plus(S) == [k |-> "cls", set |-> S, q |-> "plus"]

\* S*
Star(S) == [k |-> "cls", set |-> S, q |-> "star"]

\* (body)*
GroupStar(body) == [k |-> "grp", body |-> body, q |-> "star"]

\* (a|b)
Alt(a, b) == [k |-> "alt", a |-> a, b |-> b]

\* ^
Bos == [k |-> "bos"]

\* $
Eos == [k |-> "eos"]

\* a literal string
Lit(s) == [i \in 1..Len(s) |-> One({s[i]})]

StepCls(S, s, P) ==
    {p + 1 : p \in {x \in P : x < Len(s) /\ s[x + 1] \in S}}

RECURSIVE ClosureCls(_, _, _)
ClosureCls(S, s, P) ==
    LET N == P \cup StepCls(S, s, P)
    IN  IF N = P THEN P ELSE ClosureCls(S, s, N)

RECURSIVE MatchFrom(_, _, _)
RECURSIVE ClosureGrp(_, _, _)
RECURSIVE StepItem(_, _, _)

\* the positions reachable from P by consuming pattern re
MatchFrom(re, s, P) ==
    IF Len(re) = 0 \/ P = {} THEN P
    ELSE MatchFrom(Tail(re), s, StepItem(Head(re), s, P))

ClosureGrp(body, s, P) ==
    LET N == P \cup MatchFrom(body, s, P)
    IN  IF N = P THEN P ELSE ClosureGrp(body, s, N)

StepItem(it, s, P) ==
    CASE it.k = "cls" ->
           (CASE it.q = "one"  -> StepCls(it.set, s, P)
              [] it.q = "opt"  -> P \cup StepCls(it.set, s, P)
              [] it.q = "plus" -> ClosureCls(it.set, s, StepCls(it.set, s, P))
              [] it.q = "star" -> ClosureCls(it.set, s, P))
      [] it.k = "grp" -> ClosureGrp(it.body, s, P)
      [] it.k = "alt" -> MatchFrom(it.a, s, P) \cup MatchFrom(it.b, s, P)
      [] it.k = "bos" -> P \cap {0}
      [] it.k = "eos" -> P \cap {Len(s)}

\* re.match(re, s) is not None
ReMatch(re, s) ==
    MatchFrom(re, s, {0}) # {}

AnyMatch(patterns, s) ==
    \E i \in 1..Len(patterns) : ReMatch(patterns[i], s)

(***************************************************************************)
(* String constants of the source.                                         *)
(***************************************************************************)
W_page ==
    <<"p", "a", "g", "e">>

W_figure ==
    <<"f", "i", "g", "u", "r", "e">>

W_table ==
    <<"t", "a", "b", "l", "e">>

W_www ==
    <<"w", "w", "w">>

W_Appendix ==
    <<"A", "p", "p", "e", "n", "d", "i", "x">>

W_Phase ==
    <<"P", "h", "a", "s", "e">>

W_For ==
    <<"F", "o", "r">>

W_each ==
    <<"e", "a", "c", "h">>

W_the ==
    <<"t", "h", "e">>

W_chapter ==
    <<"c", "h", "a", "p", "t", "e", "r">>

UntitledDocument ==
    <<"U", "n", "t", "i", "t", "l", "e", "d", " ", "D", "o", "c", "u", "m", "e", "n", "t">>

NoTitleFound ==
    <<"N", "o", " ", "T", "i", "t", "l", "e", " ", "F", "o", "u", "n", "d">>

Untitled ==
    <<"U", "n", "t", "i", "t", "l", "e", "d">>

W_bold ==
    <<"b", "o", "l", "d">>

common_heading_words ==
    <<<<"s", "u", "m", "m", "a", "r", "y">>,
      <<"b", "a", "c", "k", "g", "r", "o", "u", "n", "d">>,
      <<"i", "n", "t", "r", "o", "d", "u", "c", "t", "i", "o", "n">>,
      <<"c", "o", "n", "c", "l", "u", "s", "i", "o", "n">>,
      <<"a", "b", "s", "t", "r", "a", "c", "t">>,
      <<"r", "e", "f", "e", "r", "e", "n", "c", "e", "s">>,
      <<"m", "e", "t", "h", "o", "d", "o", "l", "o", "g", "y">>,
      <<"a", "p", "p", "r", "o", "a", "c", "h">>,
      <<"r", "e", "q", "u", "i", "r", "e", "m", "e", "n", "t", "s">>,
      <<"e", "v", "a", "l", "u", "a", "t", "i", "o", "n">>,
      <<"t", "i", "m", "e", "l", "i", "n", "e">>,
      <<"m", "i", "l", "e", "s", "t", "o", "n", "e", "s">>,
      <<"a", "p", "p", "e", "n", "d", "i", "x">>,
      <<"p", "h", "a", "s", "e">>,
      <<"b", "u", "s", "i", "n", "e", "s", "s">>,
      <<"p", "l", "a", "n">>>>

(***************************************************************************)
(* Arithmetic on font sizes.  A fragment list te is a sequence of records  *)
(* [text, size, flags, font, page].                                        *)
(***************************************************************************)
\* resolution of a font size: sizes are counted in units of 1/Pt point
Pt ==
    10000

\* the value None in the "size" slot of a fragment (sizes are positive)
NoneSize ==
    0 - 1

\* the exception raised while the sizes are collected and averaged:
\* item["size"] of a fragment without the key, None in the sum, no fragment
SizesError(te) ==
    IF \E i \in 1..Len(te) : "size" \notin DOMAIN te[i] THEN "KeyError"
    ELSE IF \E i \in 1..Len(te) : te[i].size = NoneSize THEN "TypeError"
    ELSE IF Len(te) = 0 THEN "ZeroDivisionError"
    ELSE "none"

RECURSIVE SumSizes(_, _)
SumSizes(te, i) ==
    IF i > Len(te) THEN 0 ELSE te[i].size + SumSizes(te, i + 1)

\* sum(all_sizes)
SizeSum(te) ==
    SumSizes(te, 1)

\* max(all_sizes)
MaxSize(te) ==
    CHOOSE m \in {te[i].size : i \in 1..Len(te)} :
        \A j \in 1..Len(te) : te[j].size <= m

\* set(all_sizes)
unique_font_sizes(te) ==
    {te[i].size : i \in 1..Len(te)}

\* size >= average_size * (num / den), with average_size = sum / len
GeAvgTimes(size, te, num, den) ==
    size * Len(te) * den >= SizeSum(te) * num

\* size > average_size * (num / den)
GtAvgTimes(size, te, num, den) ==
    size * Len(te) * den > SizeSum(te) * num

\* flags_value & 16
IsBoldFlag(flags_value) ==
    (flags_value \div 16) % 2 = 1

(***************************************************************************)
(* main.py: analyze_document_structure                                     *)
(***************************************************************************)
\* r'^\d+\.?\s'
LeadingNumberRe ==
    <<Bos, Plus(Digit), Opt({"."}), One(SpaceCh)>>

could_be_title(text_item, size, page_num, te) ==
    LET word_count == Len(Split(text_item))
    IN  /\ ~(page_num > 2)
        /\ ~(size * 10 < MaxSize(te) * 9)
        /\ ~(word_count < 3 \/ word_count > 25)
        /\ ~ReMatch(LeadingNumberRe, text_item)
        /\ ~(\/ StartsWith(StrLower(text_item), W_page)
             \/ StartsWith(StrLower(text_item), W_chapter))

non_heading_patterns ==
    << <<Bos, Plus(Digit), Eos>>,
       <<Bos>> \o Lit(W_page) \o <<Plus(SpaceCh), Plus(Digit)>>,
       <<Bos>> \o Lit(W_figure) \o <<Plus(SpaceCh), Plus(Digit)>>,
       <<Bos>> \o Lit(W_table) \o <<Plus(SpaceCh), Plus(Digit)>>,
       <<Bos, One(WordCh), Opt(WordCh), Eos>>,
       <<Bos, Plus(NotWordNotSpace), Eos>>,
       <<Bos, One(Digit), One(Digit), One(Digit), One(Digit), Eos>>,
       <<Bos>> \o Lit(W_www) \o <<One({"."})>>,
       <<One({"@"})>> >>

heading_patterns ==
    << <<Bos, Plus(Digit), Opt({"."}), Plus(SpaceCh), One(Upper)>>,
       <<Bos, Plus(Digit), One({"."}), Plus(Digit), Opt({"."}),
         Plus(SpaceCh), One(Upper)>>,
       <<Bos, Plus(Digit), One({"."}), Plus(Digit), One({"."}), Plus(Digit),
         Opt({"."}), Plus(SpaceCh), One(Upper)>>,
       <<Bos, Plus(Digit), One({"."}), Plus(Digit), One({"."}), Plus(Digit),
         One({"."}), Plus(Digit), Opt({"."}), Plus(SpaceCh), One(Upper)>>,
       <<Bos, One(Upper), Plus(Lower),
         GroupStar(<<Plus(SpaceCh), One(Upper \cup {"&"}), Star(Lower)>>),
         Opt({":"}), Star(SpaceCh), Eos>>,
       <<Bos, One(Upper), Plus(Upper \cup SpaceCh \cup {"&"}),
         Opt({":"}), Star(SpaceCh), Eos>>,
       <<Bos>> \o Lit(W_Appendix) \o <<Plus(SpaceCh), One(Upper)>>,
       <<Bos>> \o Lit(W_Phase) \o <<Plus(SpaceCh), One({"I", "V", "X"})>>,
       <<Bos>> \o Lit(W_For) \o <<Plus(SpaceCh), Alt(Lit(W_each), Lit(W_the)),
                                  Plus(SpaceCh), One(Upper)>>,
       <<Bos, Plus(Digit), One({"."}), Plus(SpaceCh), One(Upper)>> >>

\* the score computed by looks_like_heading for a text that passed the filters
heading_score(normalized_text, size, flags_value, te) ==
    LET is_bold == IsBoldFlag(flags_value)
        larger_than_normal == GtAvgTimes(size, te, 115, 100)
        matches_pattern == AnyMatch(heading_patterns, normalized_text)
        contains_keyword ==
            \E i \in 1..Len(common_heading_words) :
                Contains(StrLower(normalized_text), common_heading_words[i])
        ends_with_colon == EndsWith(normalized_text, <<":">>)
    IN  (IF is_bold THEN 2 ELSE 0)
        + (IF matches_pattern THEN 3 ELSE 0)
        + (IF larger_than_normal THEN 1 ELSE 0)
        + (IF contains_keyword THEN 2 ELSE 0)
        + (IF ends_with_colon THEN 1 ELSE 0)
        + (IF GeAvgTimes(size, te, 13, 10) THEN 1 ELSE 0)

looks_like_heading(text_item, size, page_num, flags_value, te) ==
    LET normalized_text == clean_text(text_item)
        word_count == Len(Split(normalized_text))
    IN  /\ ~(Len(normalized_text) < 2 \/ Len(normalized_text) > 150)
        /\ ~(word_count > 20)
        /\ ~AnyMatch(non_heading_patterns, StrLower(normalized_text))
        /\ heading_score(normalized_text, size, flags_value, te) >= 4

\* mutant of SizeRank: the sizes are sorted ascending
SizeRank_Ascending(size, te) ==
    IF size \in unique_font_sizes(te)
    THEN Cardinality({u \in unique_font_sizes(te) : u < size})
    ELSE Cardinality(unique_font_sizes(te)) - 1

\* size_rank: unique_font_sizes is sorted descending, so the index of size is
\* the number of distinct sizes above it
SizeRank(size, te) ==
    IF size \in unique_font_sizes(te)
    THEN Cardinality({u \in unique_font_sizes(te) : u > size})
    ELSE Cardinality(unique_font_sizes(te)) - 1

\* mutant of LevelH1Re: r'^\d+\s+[A-Z]', without the optional dot
LevelH1Re_NoDot ==
    <<Bos, Plus(Digit), Plus(SpaceCh), One(Upper)>>

\* r'^\d+\.?\s+[A-Z]'
LevelH1Re ==
    <<Bos, Plus(Digit), Opt({"."}), Plus(SpaceCh), One(Upper)>>

\* mutant of LevelH2Re: r'^\d+\.\d+', without the separator that ends the number
LevelH2Re_Loose ==
    <<Bos, Plus(Digit), One({"."}), Plus(Digit)>>

\* r'^\d+\.\d+\.?\s+'
LevelH2Re ==
    <<Bos, Plus(Digit), One({"."}), Plus(Digit), Opt({"."}), Plus(SpaceCh)>>

\* r'^\d+\.\d+\.\d+\.?\s+'
LevelH3Re ==
    <<Bos, Plus(Digit), One({"."}), Plus(Digit), One({"."}), Plus(Digit),
      Opt({"."}), Plus(SpaceCh)>>

\* r'^\d+\.\d+\.\d+\.\d+\.?\s+'
LevelH4Re ==
    <<Bos, Plus(Digit), One({"."}), Plus(Digit), One({"."}), Plus(Digit),
      One({"."}), Plus(Digit), Opt({"."}), Plus(SpaceCh)>>

\* r'^Appendix\s+[A-Z]:'
LevelAppendixRe ==
    <<Bos>> \o Lit(W_Appendix) \o <<Plus(SpaceCh), One(Upper), One({":"})>>

\* r'^Phase\s+[IVX]+:'
LevelPhaseRe ==
    <<Bos>> \o Lit(W_Phase) \o <<Plus(SpaceCh), Plus({"I", "V", "X"}), One({":"})>>

\* r'^For\s+(each|the)\s+[A-Z]'
LevelForRe ==
    <<Bos>> \o Lit(W_For) \o <<Plus(SpaceCh), Alt(Lit(W_each), Lit(W_the)),
                               Plus(SpaceCh), One(Upper)>>

\* r'^\d+\.\s+[A-Z]'
LevelItemRe ==
    <<Bos, Plus(Digit), One({"."}), Plus(SpaceCh), One(Upper)>>

determine_heading_level(text_item, size, page_num, te) ==
    LET ct == clean_text(text_item)
    IN  IF ReMatch(LevelH1Re, ct) THEN "H1"
        ELSE IF ReMatch(LevelH2Re, ct) THEN "H2"
        ELSE IF ReMatch(LevelH3Re, ct) THEN "H3"
        ELSE IF ReMatch(LevelH4Re, ct) THEN "H4"
        ELSE IF ReMatch(LevelAppendixRe, ct) THEN "H2"
        ELSE IF ReMatch(LevelPhaseRe, ct) THEN "H3"
        ELSE IF ReMatch(LevelForRe, ct) THEN "H4"
        ELSE IF ReMatch(LevelItemRe, ct) THEN "H3"
        ELSE IF Cardinality(unique_font_sizes(te)) >= 4
        THEN (CASE SizeRank(size, te) = 0 -> "H1"
                [] SizeRank(size, te) = 1 -> "H2"
                [] SizeRank(size, te) = 2 -> "H3"
                [] OTHER -> "H4")
        ELSE IF GeAvgTimes(size, te, 14, 10) THEN "H1"
        ELSE IF GeAvgTimes(size, te, 125, 100) THEN "H2"
        ELSE IF GeAvgTimes(size, te, 11, 10) THEN "H3"
        ELSE "H4"

\* possible_titles: the indices of the title candidates, in document order
possible_titles(te) ==
    SelectSeq([i \in 1..Len(te) |-> i],
              LAMBDA i : could_be_title(te[i].text, te[i].size, te[i].page, te))

\* mutant of TitleKey: the page is added instead of subtracted
TitleKey_PlusPage(el) ==
    el.size * 1000 + el.page * Pt

\* mutant of TitleKey: the size is not scaled by 1000
TitleKey_NoScale(el) ==
    el.size - el.page * Pt

\* x["size"] * 1000 - x["page"], in units of 1/Pt
TitleKey(el) ==
    el.size * 1000 - el.page * Pt

\* max(possible_titles, key=...): the first candidate whose key is maximal
best_candidate(te) ==
    LET c == possible_titles(te)
        best == CHOOSE k \in 1..Len(c) :
                   /\ \A j \in 1..Len(c) : TitleKey(te[c[j]]) <= TitleKey(te[c[k]])
                   /\ \A j \in 1..(k - 1) : TitleKey(te[c[j]]) < TitleKey(te[c[k]])
    IN  c[best]

doc_title(te) ==
    IF Len(possible_titles(te)) > 0
    THEN clean_text(te[best_candidate(te)].text)
    ELSE UntitledDocument

RECURSIVE HeadingLoop_NoDedup(_, _, _, _)
\* mutant of HeadingLoop: processed_texts is never added to
HeadingLoop_NoDedup(te, i, processed_texts, title) ==
    IF i > Len(te) THEN <<>>
    ELSE LET element == te[i]
             text_cleaned == clean_text(element.text)
             text_lower == StrLower(text_cleaned)
         IN  IF text_lower \in processed_texts \/ text_lower = StrLower(title)
             THEN HeadingLoop_NoDedup(te, i + 1, processed_texts, title)
             ELSE IF looks_like_heading(element.text, element.size,
                                        element.page, element.flags, te)
             THEN <<[text |-> text_cleaned,
                     level |-> determine_heading_level(element.text, element.size,
                                                       element.page, te),
                     page |-> element.page,
                     size |-> element.size]>>
                  \o HeadingLoop_NoDedup(te, i + 1, processed_texts, title)
             ELSE HeadingLoop_NoDedup(te, i + 1, processed_texts, title)

RECURSIVE HeadingLoop_KeepTitle(_, _, _, _)
\* mutant of HeadingLoop: the title itself is not skipped
HeadingLoop_KeepTitle(te, i, processed_texts, title) ==
    IF i > Len(te) THEN <<>>
    ELSE LET element == te[i]
             text_cleaned == clean_text(element.text)
             text_lower == StrLower(text_cleaned)
         IN  IF text_lower \in processed_texts
             THEN HeadingLoop_KeepTitle(te, i + 1, processed_texts, title)
             ELSE IF looks_like_heading(element.text, element.size,
                                        element.page, element.flags, te)
             THEN <<[text |-> text_cleaned,
                     level |-> determine_heading_level(element.text, element.size,
                                                       element.page, te),
                     page |-> element.page,
                     size |-> element.size]>>
                  \o HeadingLoop_KeepTitle(te, i + 1,
                                           processed_texts \cup {text_lower}, title)
             ELSE HeadingLoop_KeepTitle(te, i + 1, processed_texts, title)

RECURSIVE HeadingLoop(_, _, _, _)
\* the loop over text_elements that fills potential_headings
HeadingLoop(te, i, processed_texts, title) ==
    IF i > Len(te) THEN <<>>
    ELSE LET element == te[i]
             text_cleaned == clean_text(element.text)
             text_lower == StrLower(text_cleaned)
         IN  IF text_lower \in processed_texts \/ text_lower = StrLower(title)
             THEN HeadingLoop(te, i + 1, processed_texts, title)
             ELSE IF looks_like_heading(element.text, element.size,
                                        element.page, element.flags, te)
             THEN <<[text |-> text_cleaned,
                     level |-> determine_heading_level(element.text, element.size,
                                                       element.page, te),
                     page |-> element.page,
                     size |-> element.size]>>
                  \o HeadingLoop(te, i + 1, processed_texts \cup {text_lower}, title)
             ELSE HeadingLoop(te, i + 1, processed_texts, title)

potential_headings(te) ==
    HeadingLoop(te, 1, {}, doc_title(te))

\* mutant of HeadingKeyLeq: the key is the page alone
HeadingKeyLeq_PageOnly(a, b) ==
    a.page <= b.page

\* the sort key (page, -size) of a heading
HeadingKeyLeq(a, b) ==
    \/ a.page < b.page
    \/ a.page = b.page /\ a.size >= b.size

\* insert x behind the elements of the sorted list whose key is not above
\* x's: they are a prefix of it, so equal keys keep their order (stable)
InsertHeading(sorted, x) ==
    LET at == Cardinality({j \in 1..Len(sorted) : HeadingKeyLeq(sorted[j], x)})
    IN  SubSeq(sorted, 1, at) \o <<x>> \o SubSeq(sorted, at + 1, Len(sorted))

RECURSIVE SortHeadingsFrom(_, _, _)
SortHeadingsFrom(hs, i, acc) ==
    IF i > Len(hs) THEN acc
    ELSE SortHeadingsFrom(hs, i + 1, InsertHeading(acc, hs[i]))

\* list.sort(key=lambda x: (x["page"], -x["size"]))
SortHeadings(hs) ==
    SortHeadingsFrom(hs, 1, <<>>)

\* mutant of QualityOk: one word is enough
QualityOk_OneWord(text_content) ==
    /\ Len(Split(text_content)) >= 1
    /\ ~ReMatch(<<Bos, Plus(Digit), Eos>>, text_content)
    /\ StrLower(text_content) \notin {W_page, W_figure, W_table}
    /\ Len(Strip(text_content)) >= 3

\* mutant of QualityOk: "> 2" words instead of ">= 2"
QualityOk_Strict(text_content) ==
    /\ Len(Split(text_content)) > 2
    /\ ~ReMatch(<<Bos, Plus(Digit), Eos>>, text_content)
    /\ StrLower(text_content) \notin {W_page, W_figure, W_table}
    /\ Len(Strip(text_content)) >= 3

\* the final quality check on one heading text
QualityOk(text_content) ==
    /\ Len(Split(text_content)) >= 2
    /\ ~ReMatch(<<Bos, Plus(Digit), Eos>>, text_content)
    /\ StrLower(text_content) \notin {W_page, W_figure, W_table}
    /\ Len(Strip(text_content)) >= 3

confirmed_headings(te) ==
    LET sorted == SortHeadings(potential_headings(te))
        kept == SelectSeq(sorted, LAMBDA h : QualityOk(h.text))
    IN  [i \in 1..Len(kept) |->
            [level |-> kept[i].level, text |-> kept[i].text, page |-> kept[i].page]]

\* sum(all_sizes) / len(all_sizes)
AverageError(te) ==
    SizesError(te)

analyze_document_structure(te) ==
    IF Len(te) = 0
    THEN [headings |-> <<>>, title |-> NoTitleFound, error |-> "none"]
    ELSE IF AverageError(te) # "none"
    THEN [headings |-> <<>>, title |-> <<>>, error |-> AverageError(te)]
    ELSE [headings |-> confirmed_headings(te), title |-> doc_title(te),
          error |-> "none"]


\* main2.py: heading_keywords
heading_keywords ==
    common_heading_words

\* main2.py: unique_sizes = sorted(set(font_sizes), reverse=True)
unique_sizes(te) ==
    {te[i].size : i \in 1..Len(te)}

\* main2.py: re.sub(r'\s+', ' ', text.strip())
clean_heading_text(text) ==
    Collapse(Strip(text))

(***************************************************************************)
(* main2.py: identify_structure                                            *)
(***************************************************************************)
\* r'^\d+\.?\s'
LeadingNumberRe2 ==
    <<Bos, Plus(Digit), Opt({"."}), One(SpaceCh)>>

is_title_candidate(text, size, page, te) ==
    LET word_count == Len(Split(text))
    IN  /\ ~(page > 2)
        /\ ~(size * 10 < MaxSize(te) * 9)
        /\ ~(word_count < 3 \/ word_count > 25)
        /\ ~ReMatch(LeadingNumberRe2, text)
        /\ ~(\/ StartsWith(StrLower(text), W_page)
             \/ StartsWith(StrLower(text), W_chapter))

skip_patterns ==
    << <<Bos, Plus(Digit), Eos>>,
       <<Bos>> \o Lit(W_page) \o <<Plus(SpaceCh), Plus(Digit)>>,
       <<Bos>> \o Lit(W_figure) \o <<Plus(SpaceCh), Plus(Digit)>>,
       <<Bos>> \o Lit(W_table) \o <<Plus(SpaceCh), Plus(Digit)>>,
       <<Bos, One(WordCh), Opt(WordCh), Eos>>,
       <<Bos, Plus(NotWordNotSpace), Eos>>,
       <<Bos, One(Digit), One(Digit), One(Digit), One(Digit), Eos>>,
       <<Bos>> \o Lit(W_www) \o <<One({"."})>>,
       <<One({"@"})>> >>

heading_patterns2 ==
    << <<Bos, Plus(Digit), Opt({"."}), Plus(SpaceCh), One(Upper)>>,
       <<Bos, Plus(Digit), One({"."}), Plus(Digit), Opt({"."}),
         Plus(SpaceCh), One(Upper)>>,
       <<Bos, Plus(Digit), One({"."}), Plus(Digit), One({"."}), Plus(Digit),
         Opt({"."}), Plus(SpaceCh), One(Upper)>>,
       <<Bos, Plus(Digit), One({"."}), Plus(Digit), One({"."}), Plus(Digit),
         One({"."}), Plus(Digit), Opt({"."}), Plus(SpaceCh), One(Upper)>>,
       <<Bos, One(Upper), Plus(Lower),
         GroupStar(<<Plus(SpaceCh), One(Upper \cup {"&"}), Star(Lower)>>),
         Opt({":"}), Star(SpaceCh), Eos>>,
       <<Bos, One(Upper), Plus(Upper \cup SpaceCh \cup {"&"}),
         Opt({":"}), Star(SpaceCh), Eos>>,
       <<Bos>> \o Lit(W_Appendix) \o <<Plus(SpaceCh), One(Upper)>>,
       <<Bos>> \o Lit(W_Phase) \o <<Plus(SpaceCh), One({"I", "V", "X"})>>,
       <<Bos>> \o Lit(W_For) \o <<Plus(SpaceCh), Alt(Lit(W_each), Lit(W_the)),
                                  Plus(SpaceCh), One(Upper)>>,
       <<Bos, Plus(Digit), One({"."}), Plus(SpaceCh), One(Upper)>> >>

\* the score computed by is_heading_candidate for a text that passed the filters
candidate_score(text_clean, size, flags, te) ==
    LET is_bold == IsBoldFlag(flags)
        is_larger == GtAvgTimes(size, te, 115, 100)
        matches_pattern == AnyMatch(heading_patterns2, text_clean)
        has_keyword ==
            \E i \in 1..Len(heading_keywords) :
                Contains(StrLower(text_clean), heading_keywords[i])
        ends_with_colon == EndsWith(text_clean, <<":">>)
    IN  (IF is_bold THEN 2 ELSE 0)
        + (IF matches_pattern THEN 3 ELSE 0)
        + (IF is_larger THEN 1 ELSE 0)
        + (IF has_keyword THEN 2 ELSE 0)
        + (IF ends_with_colon THEN 1 ELSE 0)
        + (IF GeAvgTimes(size, te, 13, 10) THEN 1 ELSE 0)

is_heading_candidate(text, size, page, flags, te) ==
    LET text_clean == clean_heading_text(text)
        word_count == Len(Split(text_clean))
    IN  /\ ~(Len(text_clean) < 2 \/ Len(text_clean) > 150)
        /\ ~(word_count > 20)
        /\ ~AnyMatch(skip_patterns, StrLower(text_clean))
        /\ candidate_score(text_clean, size, flags, te) >= 4

\* size_rank: unique_sizes is sorted descending, so the index of size is
\* the number of distinct sizes above it
SizeRank2(size, te) ==
    IF size \in unique_sizes(te)
    THEN Cardinality({u \in unique_sizes(te) : u > size})
    ELSE Cardinality(unique_sizes(te)) - 1

\* r'^\d+\.?\s+[A-Z]'
ClassH1Re ==
    <<Bos, Plus(Digit), Opt({"."}), Plus(SpaceCh), One(Upper)>>

\* r'^\d+\.\d+\.?\s+'
ClassH2Re ==
    <<Bos, Plus(Digit), One({"."}), Plus(Digit), Opt({"."}), Plus(SpaceCh)>>

\* r'^\d+\.\d+\.\d+\.?\s+'
ClassH3Re ==
    <<Bos, Plus(Digit), One({"."}), Plus(Digit), One({"."}), Plus(Digit),
      Opt({"."}), Plus(SpaceCh)>>

\* r'^\d+\.\d+\.\d+\.\d+\.?\s+'
ClassH4Re ==
    <<Bos, Plus(Digit), One({"."}), Plus(Digit), One({"."}), Plus(Digit),
      One({"."}), Plus(Digit), Opt({"."}), Plus(SpaceCh)>>

\* r'^Appendix\s+[A-Z]:'
ClassAppendixRe ==
    <<Bos>> \o Lit(W_Appendix) \o <<Plus(SpaceCh), One(Upper), One({":"})>>

\* r'^Phase\s+[IVX]+:'
ClassPhaseRe ==
    <<Bos>> \o Lit(W_Phase) \o <<Plus(SpaceCh), Plus({"I", "V", "X"}), One({":"})>>

\* r'^For\s+(each|the)\s+[A-Z]'
ClassForRe ==
    <<Bos>> \o Lit(W_For) \o <<Plus(SpaceCh), Alt(Lit(W_each), Lit(W_the)),
                               Plus(SpaceCh), One(Upper)>>

\* r'^\d+\.\s+[A-Z]'
ClassItemRe ==
    <<Bos, Plus(Digit), One({"."}), Plus(SpaceCh), One(Upper)>>

classify_heading_level(text, size, page, te) ==
    LET ct == clean_heading_text(text)
    IN  IF ReMatch(ClassH1Re, ct) THEN "H1"
        ELSE IF ReMatch(ClassH2Re, ct) THEN "H2"
        ELSE IF ReMatch(ClassH3Re, ct) THEN "H3"
        ELSE IF ReMatch(ClassH4Re, ct) THEN "H4"
        ELSE IF ReMatch(ClassAppendixRe, ct) THEN "H2"
        ELSE IF ReMatch(ClassPhaseRe, ct) THEN "H3"
        ELSE IF ReMatch(ClassForRe, ct) THEN "H4"
        ELSE IF ReMatch(ClassItemRe, ct) THEN "H3"
        ELSE IF Cardinality(unique_sizes(te)) >= 4
        THEN (CASE SizeRank2(size, te) = 0 -> "H1"
                [] SizeRank2(size, te) = 1 -> "H2"
                [] SizeRank2(size, te) = 2 -> "H3"
                [] OTHER -> "H4")
        ELSE IF GeAvgTimes(size, te, 14, 10) THEN "H1"
        ELSE IF GeAvgTimes(size, te, 125, 100) THEN "H2"
        ELSE IF GeAvgTimes(size, te, 11, 10) THEN "H3"
        ELSE "H4"

\* title_candidates: the indices of the title candidates, in document order
title_candidates(te) ==
    SelectSeq([i \in 1..Len(te) |-> i],
              LAMBDA i : is_title_candidate(te[i].text, te[i].size, te[i].page, te))

\* x["size"] * 1000 - x["page"], in units of 1/Pt (main2.py)
TitleKey2(el) ==
    el.size * 1000 - el.page * Pt

\* max(title_candidates, key=...): the first candidate whose key is maximal
best_title(te) ==
    LET c == title_candidates(te)
        best == CHOOSE k \in 1..Len(c) :
                   /\ \A j \in 1..Len(c) : TitleKey2(te[c[j]]) <= TitleKey2(te[c[k]])
                   /\ \A j \in 1..(k - 1) : TitleKey2(te[c[j]]) < TitleKey2(te[c[k]])
    IN  c[best]

title_of(te) ==
    IF Len(title_candidates(te)) > 0
    THEN clean_heading_text(te[best_title(te)].text)
    ELSE UntitledDocument

RECURSIVE CandidateLoop(_, _, _, _)
\* the loop over text_elements that fills heading_candidates
CandidateLoop(te, i, seen_texts, title) ==
    IF i > Len(te) THEN <<>>
    ELSE LET item == te[i]
             text_clean == clean_heading_text(item.text)
             text_lower == StrLower(text_clean)
         IN  IF text_lower \in seen_texts \/ text_lower = StrLower(title)
             THEN CandidateLoop(te, i + 1, seen_texts, title)
             ELSE IF is_heading_candidate(item.text, item.size,
                                        item.page, item.flags, te)
             THEN <<[text |-> text_clean,
                     level |-> classify_heading_level(item.text, item.size,
                                                       item.page, te),
                     page |-> item.page,
                     size |-> item.size]>>
                  \o CandidateLoop(te, i + 1, seen_texts \cup {text_lower}, title)
             ELSE CandidateLoop(te, i + 1, seen_texts, title)

heading_candidates(te) ==
    CandidateLoop(te, 1, {}, title_of(te))

\* the sort key (page, -size) of a heading
CandidateKeyLeq(a, b) ==
    \/ a.page < b.page
    \/ a.page = b.page /\ a.size >= b.size

\* insert x behind the items of the sorted list whose key is not above
\* x's: they are a prefix of it, so equal keys keep their order (stable)
InsertCandidate(sorted, x) ==
    LET at == Cardinality({j \in 1..Len(sorted) : CandidateKeyLeq(sorted[j], x)})
    IN  SubSeq(sorted, 1, at) \o <<x>> \o SubSeq(sorted, at + 1, Len(sorted))

RECURSIVE SortCandidatesFrom(_, _, _)
SortCandidatesFrom(hs, i, acc) ==
    IF i > Len(hs) THEN acc
    ELSE SortCandidatesFrom(hs, i + 1, InsertCandidate(acc, hs[i]))

\* list.sort(key=lambda x: (x["page"], -x["size"]))
SortCandidates(hs) ==
    SortCandidatesFrom(hs, 1, <<>>)

\* the final quality check on one heading text
QualityOk2(text) ==
    /\ Len(Split(text)) >= 2
    /\ ~ReMatch(<<Bos, Plus(Digit), Eos>>, text)
    /\ StrLower(text) \notin {W_page, W_figure, W_table}
    /\ Len(Strip(text)) >= 3

final_headings(te) ==
    LET sorted == SortCandidates(heading_candidates(te))
        kept == SelectSeq(sorted, LAMBDA h : QualityOk2(h.text))
    IN  [i \in 1..Len(kept) |->
            [level |-> kept[i].level, text |-> kept[i].text, page |-> kept[i].page]]

\* sum(all_sizes) / len(all_sizes)
AverageError2(te) ==
    SizesError(te)

identify_structure(te) ==
    IF Len(te) = 0
    THEN [headings |-> <<>>, title |-> UntitledDocument, error |-> "none"]
    ELSE IF AverageError2(te) # "none"
    THEN [headings |-> <<>>, title |-> <<>>, error |-> AverageError2(te)]
    ELSE [headings |-> final_headings(te), title |-> title_of(te),
          error |-> "none"]

(***************************************************************************)
(* main3.py: detect                                                        *)
(***************************************************************************)
RECURSIVE DetectLoop(_, _, _, _)
\* the loop of detect over data: the pair <<out, ttl>> after fragment i..
DetectLoop(data, i, ttl, out) ==
    IF i > Len(data) THEN [headings |-> out, title |-> ttl, error |-> "none"]
    ELSE LET d == data[i]
             txt == d.text
             sz == d.size
             ft == StrLower(d.font)
         IN  IF Len(txt) = 0 \/ Len(txt) < 3
             THEN DetectLoop(data, i + 1, ttl, out)
             ELSE IF sz * 100 >= MaxSize(data) * 95 /\ ttl = Untitled
             THEN DetectLoop(data, i + 1, txt, out)
             ELSE IF /\ GtAvgTimes(sz, data, 12, 10)
                     /\ (Contains(ft, W_bold) \/ GtAvgTimes(sz, data, 15, 10))
             THEN LET lvl == IF GeAvgTimes(sz, data, 15, 10) THEN "H1"
                             ELSE IF GeAvgTimes(sz, data, 13, 10) THEN "H2"
                             ELSE "H3"
                  IN  DetectLoop(data, i + 1, ttl,
                                 Append(out, [level |-> lvl, text |-> txt,
                                              page |-> d.page]))
             ELSE DetectLoop(data, i + 1, ttl, out)

detect(data) ==
    IF Len(data) = 0
    THEN [headings |-> <<>>, title |-> Untitled, error |-> "none"]
    ELSE IF SizesError(data) # "none"
    THEN [headings |-> <<>>, title |-> <<>>, error |-> SizesError(data)]
    ELSE DetectLoop(data, 1, Untitled, <<>>)

(***************************************************************************)
(* Comparison of str values (by code point).                               *)
(***************************************************************************)
AsciiOrder ==
    <<"\t", " ", "&", ",", "-", ".", "/">> \o
    <<"0", "1", "2", "3", "4", "5", "6", "7", "8", "9">> \o
    <<":", "@">> \o UpperSeq \o <<"_">> \o LowerSeq

Ord(c) ==
    CHOOSE i \in 1..Len(AsciiOrder) : AsciiOrder[i] = c

\* a < b on str
StrLess(a, b) ==
    \E k \in 1..(Len(a) + 1) :
        /\ k <= Len(b)
        /\ \A j \in 1..(k - 1) : j <= Len(a) /\ a[j] = b[j]
        /\ (k = Len(a) + 1 \/ Ord(a[k]) < Ord(b[k]))

(***************************************************************************)
(* main.py: split_document_by_sections and the persona analysis tab        *)
(***************************************************************************)
\* mutant of split_document_by_sections: the title is the whole page text
split_document_by_sections_NoCut(file) ==
    [p \in 1..Len(file.pages) |->
        LET stripped == [k \in 1..Len(file.pages[p]) |-> Strip(file.pages[p][k])]
            page_content == SelectSeq(stripped, LAMBDA t : Len(t) > 0)
            full_page_text == JoinSp(page_content)
        IN  [document |-> file.name,
             start_page |-> p,
             section_title |-> full_page_text,
             refined_text |-> full_page_text]]

\* the sections of one uploaded file, one per page
split_document_by_sections(file) ==
    [p \in 1..Len(file.pages) |->
        LET stripped == [k \in 1..Len(file.pages[p]) |-> Strip(file.pages[p][k])]
            page_content == SelectSeq(stripped, LAMBDA t : Len(t) > 0)
            full_page_text == JoinSp(page_content)
        IN  [document |-> file.name,
             start_page |-> p,
             section_title |-> Take(full_page_text, 80),
             refined_text |-> full_page_text]]

RECURSIVE all_doc_sections(_)
\* the sections of all uploaded files, in upload order
all_doc_sections(files) ==
    IF Len(files) = 0 THEN <<>>
    ELSE split_document_by_sections(Head(files)) \o all_doc_sections(Tail(files))

\* set((task + " " + role).lower().split())
search_terms(role, task) ==
    TokenSet(StrLower(task \o <<" ">> \o role))

\* mutant of match_count: the intersection with the search terms is forgotten
match_count_NoQuery(section, terms) ==
    Cardinality(TokenSet(StrLower(section.section_title)))

\* len(set(section["section_title"].lower().split()) & search terms)
match_count(section, terms) ==
    Cardinality(TokenSet(StrLower(section.section_title)) \cap terms)

\* mutant of Matches: every section is appended
Matches_All(section, terms) ==
    TRUE

\* whether the loop appends the section to the result list
Matches(section, terms) ==
    match_count(section, terms) # 0

\* the loop that collects the matching sections
important_sections(sections, terms) ==
    LET hit == SelectSeq(sections, LAMBDA s : Matches(s, terms))
    IN  [i \in 1..Len(hit) |->
            [document |-> hit[i].document,
             start_page |-> hit[i].start_page,
             section_title |-> hit[i].section_title,
             importance_rank |-> 0,
             refined_text |-> Take(hit[i].refined_text, 1000)]]

\* mutant of SectionKeyLeq: the key is the score alone
SectionKeyLeq_ScoreOnly(a, b, terms) ==
    match_count(a, terms) >= match_count(b, terms)

\* mutant of SectionKeyLeq: the score is not negated (ascending score)
SectionKeyLeq_Asc(a, b, terms) ==
    LET sa == match_count(a, terms)
        sb == match_count(b, terms)
    IN  \/ sa < sb
        \/ sa = sb /\ StrLess(a.document, b.document)
        \/ sa = sb /\ a.document = b.document /\ a.start_page <= b.start_page

\* the sort key (-score, document, start_page): a sorts before or with b
SectionKeyLeq(a, b, terms) ==
    LET sa == match_count(a, terms)
        sb == match_count(b, terms)
    IN  \/ sa > sb
        \/ sa = sb /\ StrLess(a.document, b.document)
        \/ sa = sb /\ a.document = b.document /\ a.start_page <= b.start_page

\* insert x behind the elements of the sorted list whose key is not above
\* x's: they are a prefix of it, so equal keys keep their order (stable)
InsertSection(sorted, x, terms) ==
    LET at == Cardinality({j \in 1..Len(sorted) : SectionKeyLeq(sorted[j], x, terms)})
    IN  SubSeq(sorted, 1, at) \o <<x>> \o SubSeq(sorted, at + 1, Len(sorted))

RECURSIVE SortSectionsFrom(_, _, _, _)
SortSectionsFrom(ss, i, acc, terms) ==
    IF i > Len(ss) THEN acc
    ELSE SortSectionsFrom(ss, i + 1, InsertSection(acc, ss[i], terms), terms)

\* list.sort(key=...)
SortSections(ss, terms) ==
    SortSectionsFrom(ss, 1, <<>>, terms)

\* the ranked result: sort, keep the first 5, number them from 1
top_sections_of(files, role, task) ==
    LET terms == search_terms(role, task)
        sorted == SortSections(important_sections(all_doc_sections(files), terms), terms)
        top == Take(sorted, 5)
    IN  [i \in 1..Len(top) |-> [top[i] EXCEPT !.importance_rank = i]]

(***************************************************************************)
(* main2.py: split_pdf_into_sections and Challenge 1B                      *)
(***************************************************************************)
\* the sections of one uploaded file, one per page
split_pdf_into_sections(file) ==
    [p \in 1..Len(file.pages) |->
        LET stripped == [k \in 1..Len(file.pages[p]) |-> Strip(file.pages[p][k])]
            page_text == SelectSeq(stripped, LAMBDA t : Len(t) > 0)
            full_text2 == JoinSp(page_text)
        IN  [document |-> file.name,
             start_page |-> p,
             section_title |-> Take(full_text2, 80),
             refined_text |-> full_text2]]

RECURSIVE all_sections(_)
\* the sections of all uploaded files, in upload order
all_sections(files) ==
    IF Len(files) = 0 THEN <<>>
    ELSE split_pdf_into_sections(Head(files)) \o all_sections(Tail(files))

\* set((task + " " + role).lower().split())
keyword_set(role, task) ==
    TokenSet(StrLower(task \o <<" ">> \o role))

\* len(set(section["section_title"].lower().split()) & search terms)
match_score(section, terms) ==
    Cardinality(TokenSet(StrLower(section.section_title)) \cap terms)

\* whether the loop appends the section to the result list
Matches2(section, terms) ==
    match_score(section, terms) # 0

\* the loop that collects the matching sections
relevant_sections(sections, terms) ==
    LET hit == SelectSeq(sections, LAMBDA s : Matches2(s, terms))
    IN  [i \in 1..Len(hit) |->
            [document |-> hit[i].document,
             start_page |-> hit[i].start_page,
             section_title |-> hit[i].section_title,
             importance_rank |-> 0,
             refined_text |-> Take(hit[i].refined_text, 1000)]]

\* the sort key (-score, document, start_page): a sorts before or with b
SectionKeyLeq2(a, b, terms) ==
    LET sa == match_score(a, terms)
        sb == match_score(b, terms)
    IN  \/ sa > sb
        \/ sa = sb /\ StrLess(a.document, b.document)
        \/ sa = sb /\ a.document = b.document /\ a.start_page <= b.start_page

\* insert x behind the elements of the sorted list whose key is not above
\* x's: they are a prefix of it, so equal keys keep their order (stable)
InsertSection2(sorted, x, terms) ==
    LET at == Cardinality({j \in 1..Len(sorted) : SectionKeyLeq2(sorted[j], x, terms)})
    IN  SubSeq(sorted, 1, at) \o <<x>> \o SubSeq(sorted, at + 1, Len(sorted))

RECURSIVE SortSectionsFrom2(_, _, _, _)
SortSectionsFrom2(ss, i, acc, terms) ==
    IF i > Len(ss) THEN acc
    ELSE SortSectionsFrom2(ss, i + 1, InsertSection2(acc, ss[i], terms), terms)

\* list.sort(key=...)
SortSections2(ss, terms) ==
    SortSectionsFrom2(ss, 1, <<>>, terms)

\* the ranked result: sort, keep the first 5, number them from 1
relevant_top(files, role, task) ==
    LET terms == keyword_set(role, task)
        sorted == SortSections2(relevant_sections(all_sections(files), terms), terms)
        top == Take(sorted, 5)
    IN  [i \in 1..Len(top) |-> [top[i] EXCEPT !.importance_rank = i]]

(***************************************************************************)
(* main3.py: extract_sections and Challenge 1B                             *)
(***************************************************************************)
\* the sections of one uploaded file, one per page
extract_sections(file) ==
    [p \in 1..Len(file.pages) |->
        LET stripped == [k \in 1..Len(file.pages[p]) |-> Strip(file.pages[p][k])]
            content == SelectSeq(stripped, LAMBDA t : Len(t) > 0)
            full_text == JoinSp(content)
        IN  [document |-> file.name,
             start_page |-> p,
             section_title |-> Take(full_text, 80),
             refined_text |-> full_text]]

RECURSIVE all_parts(_)
\* the sections of all uploaded files, in upload order
all_parts(files) ==
    IF Len(files) = 0 THEN <<>>
    ELSE extract_sections(Head(files)) \o all_parts(Tail(files))

\* set((task + " " + role).lower().split())
keys(role, task) ==
    TokenSet(StrLower(task \o <<" ">> \o role))

\* mutant of score3: the words of the whole text are counted
score3_Body(section, terms) ==
    Cardinality(TokenSet(StrLower(section.refined_text)) \cap terms)

\* len(set(section["section_title"].lower().split()) & search terms)
score3(section, terms) ==
    Cardinality(TokenSet(StrLower(section.section_title)) \cap terms)

\* whether the loop appends the section to the result list
Matches3(section, terms) ==
    Len(section.refined_text) > 0 /\ score3(section, terms) # 0

\* the loop that collects the matching sections
matched(sections, terms) ==
    LET hit == SelectSeq(sections, LAMBDA s : Matches3(s, terms))
    IN  [i \in 1..Len(hit) |->
            [document |-> hit[i].document,
             start_page |-> hit[i].start_page,
             section_title |-> hit[i].section_title,
             importance_rank |-> 0,
             refined_text |-> Take(hit[i].refined_text, 1000)]]

\* the sort key (-score, document, start_page): a sorts before or with b
SectionKeyLeq3(a, b, terms) ==
    LET sa == score3(a, terms)
        sb == score3(b, terms)
    IN  \/ sa > sb
        \/ sa = sb /\ StrLess(a.document, b.document)
        \/ sa = sb /\ a.document = b.document /\ a.start_page <= b.start_page

\* insert x behind the elements of the sorted list whose key is not above
\* x's: they are a prefix of it, so equal keys keep their order (stable)
InsertSection3(sorted, x, terms) ==
    LET at == Cardinality({j \in 1..Len(sorted) : SectionKeyLeq3(sorted[j], x, terms)})
    IN  SubSeq(sorted, 1, at) \o <<x>> \o SubSeq(sorted, at + 1, Len(sorted))

RECURSIVE SortSectionsFrom3(_, _, _, _)
SortSectionsFrom3(ss, i, acc, terms) ==
    IF i > Len(ss) THEN acc
    ELSE SortSectionsFrom3(ss, i + 1, InsertSection3(acc, ss[i], terms), terms)

\* list.sort(key=...)
SortSections3(ss, terms) ==
    SortSectionsFrom3(ss, 1, <<>>, terms)

\* the ranked result: sort, keep the first 5, number them from 1
matched_top(files, role, task) ==
    LET terms == keys(role, task)
        sorted == SortSections3(matched(all_parts(files), terms), terms)
        top == Take(sorted, 5)
    IN  [i \in 1..Len(top) |-> [top[i] EXCEPT !.importance_rank = i]]

(***************************************************************************)
(* Inputs: the texts, fragments and uploaded files the behaviours draw on. *)
(***************************************************************************)
T_ExecutiveSummary ==
    <<"E", "x", "e", "c", "u", "t", "i", "v", "e", " ", "S", "u", "m", "m", "a", "r", "y">>

T_Introduction ==
    <<"1", ".", " ", "I", "n", "t", "r", "o", "d", "u", "c", "t", "i", "o", "n">>

T_Background ==
    <<"1", ".", "1", " ", "B", "a", "c", "k", "g", "r", "o", "u", "n", "d">>

T_ExecSummaryCaps ==
    <<"E", "X", "E", "C", "U", "T", "I", "V", "E", " ", " ", "S", "U", "M", "M", "A", "R", "Y">>

T_Summary ==
    <<"S", "u", "m", "m", "a", "r", "y">>

T_ProjectBusinessPlan ==
    <<"P", "r", "o", "j", "e", "c", "t", " ", "B", "u", "s", "i", "n", "e", "s", "s", " ", "P", "l", "a", "n">>

T_projectbusinessplan ==
    <<"p", "r", "o", "j", "e", "c", "t", " ", " ", "b", "u", "s", "i", "n", "e", "s", "s", " ", "p", "l", "a", "n">>

T_AnnualSalesReport ==
    <<"A", "n", "n", "u", "a", "l", " ", "S", "a", "l", "e", "s", " ", "R", "e", "p", "o", "r", "t">>

T_Sec23 ==
    <<"2", ".", "3", " ", "S", "o", "m", "e", "t", "h", "i", "n", "g">>

T_Sec231 ==
    <<"2", ".", "3", ".", "1", " ", "S", "o", "m", "e", "t", "h", "i", "n", "g">>

T_Sec2314 ==
    <<"2", ".", "3", ".", "1", ".", "4", " ", "S", "o", "m", "e", "t", "h", "i", "n", "g">>

T_ContactMail ==
    <<"C", "o", "n", "t", "a", "c", "t", ":", " ", "a", "d", "m", "i", "n", "@", "c", "o", "r", "p", ".", "c", "o", "m">>

T_AtOffice ==
    <<"@", "O", "f", "f", "i", "c", "e", " ", "S", "u", "m", "m", "a", "r", "y">>

T_Body ==
    <<"T", "h", "e", " ", "q", "u", "i", "c", "k", " ", "b", "r", "o", "w", "n", " ", "f", "o", "x", " ", "j", "u", "m", "p", "s">>

F_Arial ==
    <<"A", "r", "i", "a", "l">>

F_ArialBold ==
    <<"A", "r", "i", "a", "l", "-", "B", "o", "l", "d">>

N_a ==
    <<"a", ".", "p", "d", "f">>

N_b ==
    <<"b", ".", "p", "d", "f">>

S_ProjectTimeline ==
    <<"P", "r", "o", "j", "e", "c", "t", " ", "t", "i", "m", "e", "l", "i", "n", "e">>

S_BudgetOverview ==
    <<"B", "u", "d", "g", "e", "t", " ", "o", "v", "e", "r", "v", "i", "e", "w">>

S_ManagerNotes ==
    <<" ", "M", "a", "n", "a", "g", "e", "r", " ", "n", "o", "t", "e", "s", " ">>

S_Blank ==
    <<" ", " ">>

S_Lead ==
    <<"l", "o", "r", "e", "m", " ", "i", "p", "s", "u", "m", " ", "d", "o", "l", "o", "r", " ", "s", "i", "t", " ", "a", "m", "e", "t", " ", "c", "o", "n", "s", "e", "c", "t", "e", "t", "u", "r", " ", "a", "d", "i", "p", "i", "s", "c", "i", "n", "g", " ", "e", "l", "i", "t", " ", "s", "e", "d", " ", "d", "o", " ", "e", "i", "u", "s", "m", "o", "d", " ", "a", " ">>

K_timeline ==
    <<"t", "i", "m", "e", "l", "i", "n", "e">>

K_schedule ==
    <<"s", "c", "h", "e", "d", "u", "l", "e">>

E_more ==
    <<"s", " ", "a", "n", "d", " ", "m", "o", "r", "e">>

E_review ==
    <<" ", "t", "i", "m", "e", "l", "i", "n", "e", " ", "r", "e", "v", "i", "e", "w">>

Q_ProjectManager ==
    <<"P", "r", "o", "j", "e", "c", "t", " ", "M", "a", "n", "a", "g", "e", "r">>

Q_ReviewTimeline ==
    <<"R", "e", "v", "i", "e", "w", " ", "p", "r", "o", "j", "e", "c", "t", " ", "t", "i", "m", "e", "l", "i", "n", "e">>

Q_Blank ==
    <<" ">>

\* longest fragment list of the general documents
MaxFrags ==
    3

\* most body fragments around a numbered heading
MaxBody ==
    3

\* most fragments of a title-page document
MaxTitles ==
    2

\* most uploaded files of the short documents
MaxFiles ==
    2

SeqsUpTo(S, n) ==
    UNION {[1..k -> S] : k \in 0..n}

\* one span as extract_text_from_pdf / get_pdf_content / extract record it;
\* size is given in units of 1/Pt, bold spans carry flag bit 16 and a bold font
Frag(text, size, flags, page) ==
    [text |-> text, size |-> size, flags |-> flags,
     font |-> IF IsBoldFlag(flags) THEN F_ArialBold ELSE F_Arial,
     page |-> page]

GeneralFrags ==
    { Frag(T_ExecutiveSummary, 18 * Pt, 16, 1),
      Frag(T_Introduction, 14 * Pt, 0, 2),
      Frag(T_Background, 12 * Pt, 0, 2),
      Frag(T_ExecSummaryCaps, 12 * Pt, 16, 2),
      Frag(T_Summary, 14 * Pt, 16, 1),
      Frag(T_ProjectBusinessPlan, 18 * Pt, 0, 1),
      Frag(T_projectbusinessplan, 12 * Pt, 20, 3) }

GeneralDocs ==
    SeqsUpTo(GeneralFrags, MaxFrags)

LevelTargets ==
    { Frag(t, s * Pt, f, 2) :
        t \in {T_Sec23, T_Sec231, T_Sec2314}, s \in {8, 12, 18}, f \in {0, 16} }

BodyFrags ==
    { Frag(T_Body, s * Pt, 0, 1) : s \in {9, 10, 11} }

\* a numbered heading behind up to MaxBody body fragments
LevelDocs ==
    { b \o <<t>> : t \in LevelTargets, b \in SeqsUpTo(BodyFrags, MaxBody) }

TitleFrags ==
    { Frag(t, s, 0, p) :
        t \in {T_ProjectBusinessPlan, T_AnnualSalesReport},
        s \in {12 * Pt, 12 * Pt + 5, 12 * Pt + 20},
        p \in {1, 2} }

TitleDocs ==
    SeqsUpTo(TitleFrags, MaxTitles)

\* an unnumbered heading at sizes between, below and above the body sizes
FallbackTargets ==
    { Frag(T_ExecutiveSummary, s, 16, 2) :
        s \in {8 * Pt, 9 * Pt + 5000, 10 * Pt + 5000, 12 * Pt, 18 * Pt} }

\* texts with an "@": inside the text, and as its first character
MailTargets ==
    { Frag(T_ContactMail, s * Pt, f, 2) : s \in {12, 18}, f \in {0, 16} }
    \cup { Frag(T_AtOffice, 18 * Pt, 16, 2) }

\* one of these targets behind up to MaxBody body fragments
StyledDocs ==
    { b \o <<t>> : t \in FallbackTargets \cup MailTargets,
                   b \in SeqsUpTo(BodyFrags, MaxBody) }

StructureInputs ==
    GeneralDocs \cup LevelDocs \cup TitleDocs \cup StyledDocs

MaxGood ==
    2

MaxText ==
    5

\* the stripped texts of 2 to MaxText characters over a digit, the dot, the
\* space, a capital and a small letter
NumberedTexts ==
    { t \in SeqsUpTo({"1", ".", " ", "A", "a"}, MaxText) :
        Len(t) >= 2 /\ t[1] # " " /\ t[Len(t)] # " " }

\* one bold fragment with such a text
NumberedDocs ==
    { <<Frag(t, 12 * Pt, 16, 1)>> : t \in NumberedTexts }

\* fragments that break the caller contract: the "size" key is missing,
\* or it holds None
MalformedFrags ==
    { [text |-> T_Introduction, flags |-> 0, font |-> F_Arial, page |-> 2],
      Frag(T_Introduction, NoneSize, 0, 2) }

\* one malformed fragment somewhere among up to MaxGood well-formed ones
MalformedInputs ==
    { SubSeq(d, 1, k) \o <<b>> \o SubSeq(d, k + 1, Len(d)) :
        <<d, k, b>> \in { t \in SeqsUpTo(GeneralFrags, MaxGood)
                                \X (0..MaxGood) \X MalformedFrags :
                            t[2] <= Len(t[1]) } }

\* the pages a file may have: each page is the sequence of its spans
PageSet ==
    { <<S_ProjectTimeline>>, <<S_BudgetOverview>>, <<S_ManagerNotes, S_Blank>> }

\* files of one or two pages
ShortFiles ==
    { [name |-> n, pages |-> ps] :
        n \in {N_a, N_b},
        ps \in SeqsUpTo({<<S_ProjectTimeline>>, <<S_BudgetOverview>>}, 2) \ {<<>>} }

\* files of three pages
LongFiles ==
    { [name |-> n, pages |-> ps] : n \in {N_a, N_b}, ps \in [1..3 -> PageSet] }

\* up to MaxFiles short files, or two long files (six sections)
RankingInputs ==
    SeqsUpTo(ShortFiles, MaxFiles) \cup [1..2 -> LongFiles]

MaxPages ==
    2

\* pages of one span: 72 characters, then "timeline" or "schedule" as
\* characters 73..80, then nothing, the rest of a longer word, or more words;
\* a short page; a page without text
SnippetPages ==
    { <<S_Lead \o k \o e>> : k \in {K_timeline, K_schedule},
                              e \in {<<>>, E_more, E_review} }
    \cup { <<S_ProjectTimeline>>, <<S_Blank>> }

\* one uploaded file of up to MaxPages such pages, or two files of one page
SnippetInputs ==
    { <<[name |-> N_a, pages |-> ps]>> :
        ps \in SeqsUpTo(SnippetPages, MaxPages) \ {<<>>} }
    \cup { <<[name |-> n[1], pages |-> <<p>>], [name |-> n[2], pages |-> <<q>>]>> :
              n \in {<<N_a, N_b>>, <<N_b, N_a>>}, p \in SnippetPages, q \in SnippetPages }

\* <<role, task>>: both text inputs are non-empty, or the button is not shown
QuerySet ==
    { <<Q_ProjectManager, Q_ReviewTimeline>>, <<Q_Blank, Q_Blank>> }

Apps ==
    {"main", "main2", "main3"}

(***************************************************************************)
(* The state machine: one run of one of the three applications, in which   *)
(* the user presses the button of the structure tab or of the persona tab. *)
(***************************************************************************)
VARIABLES
    app,              \* which script runs: "main", "main2" or "main3"
    pc,               \* "ready" before the button is pressed, "done" after
    text_elements,    \* the fragments extracted from the uploaded PDF
    outline,          \* [headings, title, error]: result of the structure tab
    uploaded_files,   \* the files uploaded in the persona tab
    role_input,       \* the role / persona text input
    task_description, \* the task text input
    top_sections      \* the ranked sections: result of the persona tab

vars ==
    <<app, pc, text_elements, outline, uploaded_files, role_input,
      task_description, top_sections>>

NoOutline ==
    [headings |-> <<>>, title |-> <<>>, error |-> "none"]

\* the structure tab with a file uploaded
Init ==
    /\ app \in Apps
    /\ pc = "ready"
    /\ text_elements \in StructureInputs
    /\ outline = NoOutline
    /\ uploaded_files = <<>>
    /\ role_input = <<>>
    /\ task_description = <<>>
    /\ top_sections = <<>>

\* structure analysis called on a list that holds a malformed fragment
InitMalformed ==
    /\ app \in Apps
    /\ pc = "ready"
    /\ text_elements \in MalformedInputs
    /\ outline = NoOutline
    /\ uploaded_files = <<>>
    /\ role_input = <<>>
    /\ task_description = <<>>
    /\ top_sections = <<>>

\* the persona tab with role, task and files filled in
InitRank ==
    /\ app \in Apps
    /\ pc = "ready"
    /\ text_elements = <<>>
    /\ outline = NoOutline
    /\ uploaded_files \in RankingInputs
    /\ \E q \in QuerySet : role_input = q[1] /\ task_description = q[2]
    /\ top_sections = <<>>

\* the structure tab with a file of one short line uploaded
InitNumbered ==
    /\ app \in Apps
    /\ pc = "ready"
    /\ text_elements \in NumberedDocs
    /\ outline = NoOutline
    /\ uploaded_files = <<>>
    /\ role_input = <<>>
    /\ task_description = <<>>
    /\ top_sections = <<>>

\* the persona tab with a file of long pages uploaded
InitSnippet ==
    /\ app \in Apps
    /\ pc = "ready"
    /\ text_elements = <<>>
    /\ outline = NoOutline
    /\ uploaded_files \in SnippetInputs
    /\ \E q \in QuerySet : role_input = q[1] /\ task_description = q[2]
    /\ top_sections = <<>>

\* main.py: button "Analyze Document Structure"
AnalyzeDocumentStructure ==
    /\ app = "main" /\ pc = "ready"
    /\ outline' = analyze_document_structure(text_elements)
    /\ pc' = "done"
    /\ UNCHANGED <<app, text_elements, uploaded_files, role_input,
                   task_description, top_sections>>

\* main2.py: button "Start Extraction"
IdentifyStructure ==
    /\ app = "main2" /\ pc = "ready"
    /\ outline' = identify_structure(text_elements)
    /\ pc' = "done"
    /\ UNCHANGED <<app, text_elements, uploaded_files, role_input,
                   task_description, top_sections>>

\* main3.py: button "Extract Structure"
Detect ==
    /\ app = "main3" /\ pc = "ready"
    /\ outline' = detect(text_elements)
    /\ pc' = "done"
    /\ UNCHANGED <<app, text_elements, uploaded_files, role_input,
                   task_description, top_sections>>

\* the buttons are shown only if role, task and files are all non-empty
PersonaReady ==
    /\ Len(role_input) > 0
    /\ Len(task_description) > 0
    /\ Len(uploaded_files) > 0

\* main.py: button "Find Relevant Sections"
FindRelevantSections ==
    /\ app = "main" /\ pc = "ready" /\ PersonaReady
    /\ top_sections' = top_sections_of(uploaded_files, role_input, task_description)
    /\ pc' = "done"
    /\ UNCHANGED <<app, text_elements, outline, uploaded_files, role_input,
                   task_description>>

\* main2.py: button "Run Analysis"
RunAnalysis ==
    /\ app = "main2" /\ pc = "ready" /\ PersonaReady
    /\ top_sections' = relevant_top(uploaded_files, role_input, task_description)
    /\ pc' = "done"
    /\ UNCHANGED <<app, text_elements, outline, uploaded_files, role_input,
                   task_description>>

\* main3.py: button "Run Persona Analysis"
RunPersonaAnalysis ==
    /\ app = "main3" /\ pc = "ready" /\ PersonaReady
    /\ top_sections' = matched_top(uploaded_files, role_input, task_description)
    /\ pc' = "done"
    /\ UNCHANGED <<app, text_elements, outline, uploaded_files, role_input,
                   task_description>>

Next ==
    \/ AnalyzeDocumentStructure
    \/ IdentifyStructure
    \/ Detect

NextRank ==
    \/ FindRelevantSections
    \/ RunAnalysis
    \/ RunPersonaAnalysis

Spec ==
    Init /\ [][Next]_vars

SpecRank ==
    InitRank /\ [][NextRank]_vars

SpecNumbered ==
    InitNumbered /\ [][Next]_vars

SpecSnippet ==
    InitSnippet /\ [][NextRank]_vars

SpecMalformed ==
    InitMalformed /\ [][Next]_vars

(***************************************************************************)
(* Properties.                                                             *)
(***************************************************************************)
Done ==
    pc = "done"

\* the applications whose structure analysis scores and deduplicates
MainApps ==
    {"main", "main2"}

\* the title each application returns when no fragment qualifies as title
DefaultTitle(a) ==
    IF a = "main3" THEN Untitled ELSE UntitledDocument

Heading(level, text, page) ==
    [level |-> level, text |-> text, page |-> page]

\* whitespace-normalized, lower-cased text of fragment k
NormLower(k) ==
    StrLower(clean_text(text_elements[k].text))

\* fragment k passes the heading filter (score >= 4) of application a
PassesFilter(a, k) ==
    LET f == text_elements[k]
    IN  IF a = "main"
        THEN looks_like_heading(f.text, f.size, f.page, f.flags, text_elements)
        ELSE is_heading_candidate(f.text, f.size, f.page, f.flags, text_elements)

\* the level application a assigns to fragment k
LevelOf(a, k) ==
    LET f == text_elements[k]
    IN  IF a = "main"
        THEN determine_heading_level(f.text, f.size, f.page, text_elements)
        ELSE classify_heading_level(f.text, f.size, f.page, text_elements)

\* the indices of the title candidates of application a
Candidates(a) ==
    LET c == IF a = "main" THEN possible_titles(text_elements)
             ELSE title_candidates(text_elements)
    IN  {c[i] : i \in 1..Len(c)}

\* C1: for an empty fragment list every structure-analysis function returns
\* no heading, no error, and the default title it returns for a non-empty
\* input without title candidate.
C1_EmptyInputDefaultTitle ==
    (Done /\ Len(text_elements) = 0) =>
        /\ outline.headings = <<>>
        /\ outline.error = "none"
        /\ outline.title = DefaultTitle(app)

\* the three-fragment example of the specification
ExampleDoc ==
    << Frag(T_ExecutiveSummary, 18 * Pt, 16, 1),
       Frag(T_Introduction, 14 * Pt, 0, 2),
       Frag(T_Background, 12 * Pt, 0, 2) >>

\* C2 as stated: the example yields title "Untitled Document" and exactly the
\* headings (H1, "1. Introduction", 2), (H2, "1.1 Background", 2).
C2_ExampleTwoHeadings ==
    (Done /\ app \in MainApps /\ text_elements = ExampleDoc) =>
        /\ outline.title = UntitledDocument
        /\ outline.headings = << Heading("H1", T_Introduction, 2),
                                 Heading("H2", T_Background, 2) >>

\* C2 amended: the example yields title "Untitled Document" and three
\* headings: (H3, "Executive Summary", 1) precedes the two numbered ones.
C2_ExampleThreeHeadings ==
    (Done /\ app \in MainApps /\ text_elements = ExampleDoc) =>
        /\ outline.title = UntitledDocument
        /\ outline.headings = << Heading("H3", T_ExecutiveSummary, 1),
                                 Heading("H1", T_Introduction, 2),
                                 Heading("H2", T_Background, 2) >>

C2_Witness ==
    Done /\ app = "main" /\ text_elements = ExampleDoc

\* fragments i < j have the same normalized lower-cased text and both pass
\* the heading filter
IsDuplicatePair(a, i, j) ==
    /\ i < j
    /\ NormLower(i) = NormLower(j)
    /\ PassesFilter(a, i)
    /\ PassesFilter(a, j)

\* the outline has exactly one heading with normalized lower-cased text t, and
\* its page and level are those of the earliest fragment with text t that
\* passes the filter
OneSurvivor(a, t) ==
    LET passing == {k \in 1..Len(text_elements) : NormLower(k) = t /\ PassesFilter(a, k)}
        first == CHOOSE k \in passing : \A m \in passing : k <= m
        hits == {h \in 1..Len(outline.headings) :
                    StrLower(outline.headings[h].text) = t}
    IN  /\ Cardinality(hits) = 1
        /\ \A h \in hits :
              /\ outline.headings[h].page = text_elements[first].page
              /\ outline.headings[h].level = LevelOf(a, first)

\* C3 as stated: two fragments with equal normalized lower-cased text that
\* both pass the heading filter leave exactly one heading with that text, with
\* the page and level of the earliest.
C3_DedupAlways ==
    (Done /\ app \in MainApps) =>
        \A i, j \in 1..Len(text_elements) :
            IsDuplicatePair(app, i, j) => OneSurvivor(app, NormLower(i))

\* C3 amended: the same, provided the text is not the returned title
\* (lower-cased) and has at least two words; otherwise no heading carries it.
C3_DedupUnlessTitleOrOneWord ==
    (Done /\ app \in MainApps) =>
        \A i, j \in 1..Len(text_elements) :
            IsDuplicatePair(app, i, j) =>
                IF /\ NormLower(i) # StrLower(outline.title)
                   /\ Len(Split(NormLower(i))) >= 2
                THEN OneSurvivor(app, NormLower(i))
                ELSE \A h \in 1..Len(outline.headings) :
                        StrLower(outline.headings[h].text) # NormLower(i)

C3_Witness ==
    /\ Done /\ app = "main"
    /\ \E i, j \in 1..Len(text_elements) :
          /\ IsDuplicatePair(app, i, j)
          /\ NormLower(i) # StrLower(outline.title)
          /\ Len(Split(NormLower(i))) >= 2
          /\ text_elements[i].page # text_elements[j].page
          /\ LevelOf(app, i) # LevelOf(app, j)
          /\ text_elements[i].text # text_elements[j].text

\* "N.N <Word>"
FormNN ==
    <<Bos, Plus(Digit), One({"."}), Plus(Digit), One({" "}), One(Upper \cup Lower)>>

\* "N.N.N <Word>"
FormNNN ==
    <<Bos, Plus(Digit), One({"."}), Plus(Digit), One({"."}), Plus(Digit),
      One({" "}), One(Upper \cup Lower)>>

\* "N.N.N.N <Word>"
FormNNNN ==
    <<Bos, Plus(Digit), One({"."}), Plus(Digit), One({"."}), Plus(Digit),
      One({"."}), Plus(Digit), One({" "}), One(Upper \cup Lower)>>

\* C4: whatever the font sizes of the document, a heading "N.N <Word>" is H2,
\* "N.N.N <Word>" is H3 and "N.N.N.N <Word>" is H4 (none of them H1).
C4_PatternLevels ==
    (Done /\ app \in MainApps) =>
        \A h \in 1..Len(outline.headings) :
            LET hd == outline.headings[h]
            IN  /\ ReMatch(FormNN, hd.text) => hd.level = "H2"
                /\ ReMatch(FormNNN, hd.text) => hd.level = "H3"
                /\ ReMatch(FormNNNN, hd.text) => hd.level = "H4"

C4_Witness ==
    /\ Done /\ app = "main"
    /\ Cardinality(unique_font_sizes(text_elements)) >= 4
    /\ \E h \in 1..Len(outline.headings) :
          /\ ReMatch(FormNNN, outline.headings[h].text)
          /\ outline.headings[h].level = "H3"
    /\ \E k \in 1..Len(text_elements) :
          /\ ReMatch(FormNNN, text_elements[k].text)
          /\ text_elements[k].size = MaxSize(text_elements)

\* C5: with exactly two title candidates, of equal size the one on the
\* earlier page is the title, and on the same page the larger one is.
C5_TitlePrecedence ==
    (Done /\ app \in MainApps /\ Cardinality(Candidates(app)) = 2) =>
        \A x, y \in Candidates(app) :
            LET fx == text_elements[x]
                fy == text_elements[y]
            IN  (\/ fx.size = fy.size /\ fx.page < fy.page
                 \/ fx.page = fy.page /\ fx.size > fy.size)
                => outline.title = clean_text(fx.text)

C5_Witness ==
    /\ Done /\ app = "main" /\ Cardinality(Candidates(app)) = 2
    /\ \E x, y \in Candidates(app) :
          /\ x > y
          /\ text_elements[x].size = text_elements[y].size
          /\ text_elements[x].page < text_elements[y].page
          /\ text_elements[x].text # text_elements[y].text
          /\ outline.title = clean_text(text_elements[x].text)

\* C6 as stated: the title is a candidate of largest font size, however
\* close the sizes are.
C6_LargestAlwaysWins ==
    (Done /\ app \in MainApps /\ Candidates(app) # {}) =>
        \E k \in Candidates(app) :
            /\ outline.title = clean_text(text_elements[k].text)
            /\ \A j \in Candidates(app) :
                  text_elements[j].size <= text_elements[k].size

\* C6 amended: the title is a candidate that no other candidate exceeds by
\* more than 0.001 in size; a candidate larger by up to 0.001 is passed over
\* only for a title on an earlier page.
C6_LargestWinsBeyondOneThousandth ==
    (Done /\ app \in MainApps /\ Candidates(app) # {}) =>
        \E k \in Candidates(app) :
            /\ outline.title = clean_text(text_elements[k].text)
            /\ \A j \in Candidates(app) :
                  text_elements[j].size > text_elements[k].size =>
                      /\ (text_elements[j].size - text_elements[k].size) * 1000 <= Pt
                      /\ text_elements[k].page < text_elements[j].page

C6_Witness ==
    /\ Done /\ app = "main"
    /\ \E k, j \in Candidates(app) :
          /\ outline.title = clean_text(text_elements[k].text)
          /\ text_elements[k].text # text_elements[j].text
          /\ (text_elements[k].size - text_elements[j].size) * 1000 > Pt
          /\ text_elements[k].page > text_elements[j].page
          /\ k > j

\* the query set built from task and role
QueryTokens ==
    TokenSet(StrLower(task_description \o <<" ">> \o role_input))

\* number of title-snippet tokens of s shared with the query set
TitleScore(s) ==
    Cardinality(TokenSet(StrLower(s.section_title)) \cap QueryTokens)

\* the pooled sections of the uploaded files
Pooled ==
    all_doc_sections(uploaded_files)

MatchingCount ==
    Cardinality({p \in 1..Len(Pooled) : TitleScore(Pooled[p]) > 0})

\* C7: no section of the ranked output has a title snippet without a token
\* of the query set, also when the output has fewer than 5 entries.
C7_RankingExclusion ==
    Done => \A i \in 1..Len(top_sections) : TitleScore(top_sections[i]) > 0

C7_Witness ==
    /\ Done /\ app = "main"
    /\ Len(top_sections) > 0 /\ Len(top_sections) < 5
    /\ \E p \in 1..Len(Pooled) : TitleScore(Pooled[p]) = 0

\* C8: the ranked output is sorted by score descending, then document name
\* ascending, then page ascending, whatever the upload order.
C8_RankingOrder ==
    Done =>
        LET ts == {<<i, TitleScore(top_sections[i])>> : i \in 1..Len(top_sections)}
        IN  \A x, y \in ts :
                x[1] < y[1] =>
                    LET a == top_sections[x[1]]
                        b == top_sections[y[1]]
                    IN  \/ x[2] > y[2]
                        \/ x[2] = y[2] /\ StrLess(a.document, b.document)
                        \/ /\ x[2] = y[2]
                           /\ a.document = b.document
                           /\ a.start_page <= b.start_page

C8_Witness ==
    /\ Done /\ app = "main"
    /\ Len(uploaded_files) = 2
    /\ uploaded_files[1].name = N_b /\ uploaded_files[2].name = N_a
    /\ \E i, j \in 1..Len(top_sections) :
          /\ i < j
          /\ TitleScore(top_sections[i]) = TitleScore(top_sections[j])
          /\ top_sections[i].document = N_a
          /\ top_sections[j].document = N_b

\* C9: with M matching sections the output has min(5, M) entries ranked
\* 1, 2, .. in order, and every section scoring above a retained one is
\* retained too (a discarded match never scores above a retained one).
C9_Truncation ==
    Done =>
        LET pool == Pooled
            \* <<position, score>> of every pooled and of every retained section
            ps == {<<p, TitleScore(pool[p])>> : p \in 1..Len(pool)}
            ts == {<<i, TitleScore(top_sections[i])>> : i \in 1..Len(top_sections)}
            M == Cardinality({q \in ps : q[2] > 0})
        IN  /\ Len(top_sections) = IF M < 5 THEN M ELSE 5
            /\ \A i \in 1..Len(top_sections) : top_sections[i].importance_rank = i
            /\ \A a \in ts :
                  Cardinality({q \in ps : q[2] > a[2]})
                  = Cardinality({b \in ts : b[2] > a[2]})

C9_Witness ==
    /\ Done /\ app = "main"
    /\ MatchingCount >= 6
    /\ Len(top_sections) = 5
    /\ \E p \in 1..Len(Pooled) :
          /\ TitleScore(Pooled[p]) > 0
          /\ TitleScore(Pooled[p]) < TitleScore(top_sections[5])

StructureOf(a, te) ==
    IF a = "main" THEN analyze_document_structure(te)
    ELSE IF a = "main2" THEN identify_structure(te)
    ELSE detect(te)

\* the fragments with a numeric size
WellFormed(te) ==
    SelectSeq(te, LAMBDA f : "size" \in DOMAIN f /\ f.size # NoneSize)

\* C11: a fragment whose size is missing or not a number is rejected alone:
\* the analysis of a list holding one does not abort and returns the outline
\* of the remaining well-formed fragments.
C11_MalformedRejectedAlone ==
    (Done /\ WellFormed(text_elements) # text_elements)
        => /\ outline.error = "none"
           /\ outline = StructureOf(app, WellFormed(text_elements))

(***************************************************************************)
(* Order and content of the outline.                                       *)
(***************************************************************************)
\* the fragment heading h of the outline came from: the earliest fragment
\* with its normalized lower-cased text that passes the heading filter
SourceOf(a, h) ==
    LET t == StrLower(outline.headings[h].text)
        passing == {k \in 1..Len(text_elements) : NormLower(k) = t /\ PassesFilter(a, k)}
    IN  CHOOSE k \in passing : \A m \in passing : k <= m

C13_NoAtSignInHeadings ==
    (Done /\ app \in MainApps) =>
        \A h \in 1..Len(outline.headings) :
            ~Contains(outline.headings[h].text, <<"@">>)

\* text matches one of the structural level patterns (numbering, Appendix,
\* Phase, For each/the)
HasLevelPattern(text) ==
    AnyMatch(<<LevelH1Re, LevelH2Re, LevelH3Re, LevelH4Re, LevelAppendixRe,
               LevelPhaseRe, LevelForRe, LevelItemRe>>, clean_text(text))

\* the level the size of fragment k gives it: by the rank of the size among
\* the distinct sizes if there are at least 4, else by its ratio to the
\* average size
FallbackLevel(k) ==
    LET n == Len(text_elements)
        size == text_elements[k].size
        distinct == {text_elements[i].size : i \in 1..n}
        rank == Cardinality({u \in distinct : u > size})
        total == SizeSum(text_elements)
    IN  IF Cardinality(distinct) >= 4
        THEN (IF rank = 0 THEN "H1" ELSE IF rank = 1 THEN "H2"
              ELSE IF rank = 2 THEN "H3" ELSE "H4")
        ELSE IF 10 * n * size >= 14 * total THEN "H1"
        ELSE IF 100 * n * size >= 125 * total THEN "H2"
        ELSE IF 10 * n * size >= 11 * total THEN "H3"
        ELSE "H4"

\* C14: a heading whose source fragment matches no structural level pattern
\* has the level its size gives it: by rank among the distinct sizes when the
\* document has at least 4 of them, by the thresholds 1.4, 1.25, 1.1 times
\* the average size otherwise.
C14_SizeFallbackLevels ==
    (Done /\ app \in MainApps) =>
        \A h \in 1..Len(outline.headings) :
            ~HasLevelPattern(text_elements[SourceOf(app, h)].text)
                => outline.headings[h].level = FallbackLevel(SourceOf(app, h))

\* an unnumbered heading ranked third of four distinct sizes is H3
C14_Witness ==
    /\ Done /\ app = "main"
    /\ Cardinality({text_elements[i].size : i \in 1..Len(text_elements)}) >= 4
    /\ \E h \in 1..Len(outline.headings) :
          /\ ~HasLevelPattern(text_elements[SourceOf(app, h)].text)
          /\ outline.headings[h].level = "H3"

\* C15: every heading of an outline has at least 2 words and 3 characters,
\* is not pure digits and is not "page", "figure" or "table"; a fragment
\* that passes the heading filter with a single word is not in the outline.
C15_QualityPass ==
    (Done /\ app \in MainApps) =>
        /\ \A h \in 1..Len(outline.headings) :
              LET t == outline.headings[h].text
              IN  /\ Len(Split(t)) >= 2
                  /\ Len(t) >= 3
                  /\ \E i \in 1..Len(t) : t[i] \notin Digit
                  /\ StrLower(t) \notin {W_page, W_figure, W_table}
        /\ \A k \in 1..Len(text_elements) :
              (Len(Split(text_elements[k].text)) = 1 /\ PassesFilter(app, k))
                  => \A h \in 1..Len(outline.headings) :
                        outline.headings[h].text # clean_text(text_elements[k].text)

\* a one-word fragment passes the heading filter next to a kept heading
C15_Witness ==
    /\ Done /\ app = "main"
    /\ Len(outline.headings) > 0
    /\ \E k \in 1..Len(text_elements) :
          /\ Len(Split(text_elements[k].text)) = 1
          /\ PassesFilter(app, k)

\* C16: no heading of an outline has the text of the returned title, both
\* whitespace-normalized and lower-cased, whichever fragments carry that
\* text and however they are styled.
C16_TitleNeverHeading ==
    (Done /\ app \in MainApps) =>
        \A h \in 1..Len(outline.headings) :
            StrLower(clean_text(outline.headings[h].text))
                # StrLower(clean_text(outline.title))

\* the title's text occurs again, written and styled differently, in a
\* fragment that passes the heading filter
C16_Witness ==
    /\ Done /\ app = "main"
    /\ \E i, j \in 1..Len(text_elements) :
          /\ i # j
          /\ clean_text(text_elements[i].text) = outline.title
          /\ NormLower(j) = StrLower(outline.title)
          /\ text_elements[j].text # text_elements[i].text
          /\ text_elements[j].flags # text_elements[i].flags
          /\ PassesFilter(app, j)
          /\ Len(Split(text_elements[j].text)) >= 2

(***************************************************************************)
(* The title snippet.                                                      *)
(***************************************************************************)
\* the text of page p of uploaded file f: its non-blank spans, stripped and
\* joined by one space
PageText(f, p) ==
    LET spans == uploaded_files[f].pages[p]
        stripped == [k \in 1..Len(spans) |-> Strip(spans[k])]
    IN  JoinSp(SelectSeq(stripped, LAMBDA t : Len(t) > 0))

\* lower-cased whitespace-delimited tokens of text t
Tokens(t) ==
    TokenSet(StrLower(t))

\* number of query tokens among the tokens of the first 80 characters of t
Score80(t) ==
    Cardinality(Tokens(Take(t, 80)) \cap QueryTokens)

\* the <<file, page>> pairs of the upload
PagesOf ==
    {<<f, p>> \in (1..Len(uploaded_files)) \X (1..3) :
        p <= Len(uploaded_files[f].pages)}

\* page <<f, p>> is in the ranked output
Ranked(fp) ==
    \E i \in 1..Len(top_sections) :
        /\ top_sections[i].document = uploaded_files[fp[1]].name
        /\ top_sections[i].start_page = fp[2]

\* C17: the match score of a section depends on the first 80 characters of
\* its page text alone: a page is ranked iff those characters hold a query
\* token (at most 5 pages here), pages that agree on them are both ranked
\* or both not, and a query word behind character 80 does not count.
C17_SnippetOnly ==
    Done =>
        /\ \A fp \in PagesOf :
              Ranked(fp) <=> Score80(PageText(fp[1], fp[2])) > 0
        /\ \A fp \in PagesOf : \A i \in 1..Len(top_sections) :
              (/\ top_sections[i].document = uploaded_files[fp[1]].name
               /\ top_sections[i].start_page = fp[2])
                  => /\ top_sections[i].section_title = Take(PageText(fp[1], fp[2]), 80)
                     /\ TitleScore(top_sections[i]) = Score80(PageText(fp[1], fp[2]))

\* a page with a query word only behind character 80 is not ranked, next to
\* a ranked page
C17_Witness ==
    /\ Done /\ app = "main"
    /\ Len(top_sections) > 0
    /\ \E fp \in PagesOf :
          /\ Len(PageText(fp[1], fp[2])) > 80
          /\ Tokens(PageText(fp[1], fp[2])) \cap QueryTokens # {}
          /\ Score80(PageText(fp[1], fp[2])) = 0
          /\ ~Ranked(fp)

(***************************************************************************)
(* The rule "N. <Capitalized>" of level assignment.                        *)
(***************************************************************************)
\* digits, a dot, whitespace, a capital letter
FormItem ==
    <<Bos, Plus(Digit), One({"."}), Plus(SpaceCh), One(Upper)>>

\* digits, an optional dot, whitespace, a capital letter
FormNumbered ==
    <<Bos, Plus(Digit), Opt({"."}), Plus(SpaceCh), One(Upper)>>

\* C18: the rule "N. <Capitalized>" -> H3 is never the one that assigns the
\* level: every normalized text of the form digits, dot, whitespace, capital
\* has the form of the first rule and is assigned H1, in the function and in
\* the outline.
C18_ItemRuleUnreachable ==
    (Done /\ app \in MainApps) =>
        \A k \in 1..Len(text_elements) :
            ReMatch(FormItem, clean_text(text_elements[k].text))
                => /\ ReMatch(FormNumbered, clean_text(text_elements[k].text))
                   /\ LevelOf(app, k) = "H1"
                   /\ \A h \in 1..Len(outline.headings) :
                         outline.headings[h].text = clean_text(text_elements[k].text)
                             => outline.headings[h].level = "H1"

\* a heading of the form "N. <Capitalized>" is in the outline
C18_Witness ==
    /\ Done /\ app = "main"
    /\ \E h \in 1..Len(outline.headings) :
          ReMatch(FormItem, outline.headings[h].text)

\* C19: every query token counted for a ranked section is a whole
\* whitespace-delimited token of the full text of its page: the cut at 80
\* characters creates no matching token.
C19_NoTokenFromCut ==
    Done =>
        \A fp \in PagesOf :
            Ranked(fp) =>
                (Tokens(Take(PageText(fp[1], fp[2]), 80)) \cap QueryTokens)
                    \subseteq Tokens(PageText(fp[1], fp[2]))

(***************************************************************************)
(* The three copies of the ranking.                                        *)
(***************************************************************************)
\* C20: for the same uploads, role and task the rankings of main.py, main2.py
\* and main3.py return the same sequence of (document, page, title, rank,
\* truncated text); the skip of sections without text in main3.py changes
\* nothing.
C20_RankingCopiesAgree ==
    Done =>
        /\ top_sections = top_sections_of(uploaded_files, role_input, task_description)
        /\ top_sections = relevant_top(uploaded_files, role_input, task_description)
        /\ top_sections = matched_top(uploaded_files, role_input, task_description)

\* main3.py ranks an upload that has a page without text, a page longer
\* than 80 characters and a matching page
C20_Witness ==
    /\ Done /\ app = "main3"
    /\ Len(top_sections) > 0
    /\ \E fp \in PagesOf : Len(PageText(fp[1], fp[2])) = 0
    /\ \E fp \in PagesOf : Len(PageText(fp[1], fp[2])) > 80

====
